---- MODULE Spec2Model ----
(***************************************************************************)
(* yewv: Store<T> (src/src/hook/store/store.rs) and the per-component      *)
(* selector subscriptions built on it (src/src/hook/store/mod.rs,          *)
(* src/src/hook/store/handle.rs).                                          *)
(*                                                                         *)
(* The program is single threaded.  A state write runs its notification    *)
(* synchronously; the model follows it callback by callback (pc, taken,    *)
(* pos, kept) because what a callback does is an input of the program.     *)
(* A panic is recorded in `failure` and ends the run.                      *)
(*                                                                         *)
(* Spec     : the store with raw subscribers (closures of user code).      *)
(* SpecHook : the store with components that call use_store.               *)
(***************************************************************************)
EXTENDS Integers, Sequences, FiniteSets, TLC

\* ------------------------------------------------------------------ bounds
\* Number of calls user code makes into the library in one run: subscribe,
\* set_state, use_store, map, watch, map_ref, watch_ref, and component drops.
MaxOps == 6

\* T: the store's state type (tests/common/store.rs StoreState, with a second
\* field of another type so that two selectors can differ in type).
StateVals == [value : {0, 1}, flag : BOOLEAN]

NoFailure == "none"
\* RefCell::borrow_mut on a borrowed cell (store.rs:54-55).
BorrowMutError == "already borrowed: BorrowMutError"
\* Panic messages of the hook layer (mod.rs:34, mod.rs:89, handle.rs:53/66, 157).
NotRegistered == "Store context not registered"
NoCorrespondingState == "Store subscription has no corresponding state."
MapDifferentOrder == "Store map was called in a different order."
WatchDifferentOrder == "Store hooks were called in a different order"

\* What a raw subscriber callback does with the store before it returns.
Effects == {"none", "state", "subscribe", "set_state"}

\* The components that call use_store (function components of the host).
Observers == {"A", "B"}
\* The host renders the components for the first time in this order.
MountOrder == <<"A", "B">>
Nobody == "-"
\* Selectors over T.
Selectors == {"value", "flag"}

VARIABLES
    state,            \* Store.state          : RefCell<Rc<T>>, the value
    previous_state,   \* Store.previous_state : RefCell<Rc<T>>, the value
    state_borrow,     \* outstanding Ref borrows of Store.state
    previous_borrow,  \* outstanding Ref borrows of Store.previous_state
    subscriptions,    \* Store.subscriptions  : the callbacks, by identity
    pc,               \* "idle"; "notify" while Store::notify runs; "returned"
                      \* when set_state is back in its caller
    taken,            \* notify's local `subs`, the list taken from the store
    pos,              \* retain's position in `taken`
    kept,             \* the callbacks retain has kept so far
    failure,          \* NoFailure, or the message of the panic that ended the run
    \* ---- hook layer, per observer (component)
    registered,       \* a StoreContext<T> is provided above the component
    hooked,           \* MyHookContext.states holds the hook's (subs, watch) state
    is_active,        \* the Rc<RefCell<bool>> shared by WatchState and the closure
    subs,             \* Subscriptions<T>: states, subscriptions, ref_subscriptions
    rendering,        \* the component whose evaluation pass is running, or Nobody
    views,            \* the Ref<M> views map_ref returned that the pass still
                      \* holds: the selector and the value read through the view
    \* ---- history (not program state)
    subscribed,       \* every callback ever subscribed, in subscription order
    call,             \* the last top-level set_state: pre-state, argument, list
    notified,         \* the callback invocations of the set_state in progress
    woken,            \* per observer: wake callbacks run by the set_state in progress
    added,            \* callbacks subscribed during the notification in progress
    carried,          \* callbacks subscribed during the previous notification
    removed,          \* callbacks whose invocation returned false
    observed,         \* what Store::state() returned since the last set_state
    reentered,        \* a callback called set_state: [by, pos, arg], or NoCall
    previous_pass,    \* per observer: the selector lists use_store cleared last
    pass_read,        \* per observer: what its declarations read since its last
                      \* use_store, until its wake callback is invoked
    ops               \* number of calls into the library so far

storeVars == <<state, previous_state, state_borrow, previous_borrow, subscriptions>>
notifyVars == <<pc, taken, pos, kept>>
hookVars == <<registered, hooked, is_active, subs, rendering, views>>
histVars == <<subscribed, call, notified, woken, added, carried, removed, observed,
              reentered, previous_pass, pass_read, ops>>
vars == <<storeVars, notifyVars, failure, hookVars, histVars>>

NoValue == [value |-> -1, flag |-> FALSE]
NoCall == [by |-> 0, pos |-> 0, arg |-> NoValue]

\* ----------------------------------------------------------------- helpers
Range(s) == {s[i] : i \in 1..Len(s)}

\* A callback in Store.subscriptions: a raw closure (the n-th subscribed by user
\* code) or the closure use_store_subscription made for component o.
Raw(n) == [kind |-> "raw", n |-> n, o |-> Nobody]
Hook(o) == [kind |-> "hook", n |-> 0, o |-> o]

\* RefCell::borrow_mut succeeds only when no borrow is outstanding.
CanBorrowMut(flag) == flag = 0

\* No pass of the component has been cleared by use_store yet.
NoPass == [cleared |-> FALSE, subscriptions |-> <<>>, ref_subscriptions |-> <<>>]

\* The pass has read nothing yet and the wake callback was not invoked since
\* it began; once it is invoked, [woken |-> TRUE, vals |-> <<>>].
NothingRead == [woken |-> FALSE, vals |-> <<>>]
Woken == [woken |-> TRUE, vals |-> <<>>]

\* Subscriptions<T> as the hook initializer builds it.
NoSubscriptions == [states |-> <<>>, subscriptions |-> <<>>, ref_subscriptions |-> <<>>]

\* ------------------------------------------------------------------- Init
\* Store::new(initial_state): both cells hold the same Rc, no subscribers.
StoreNew(initial_state) ==
    /\ previous_state = initial_state
    /\ state = initial_state
    /\ subscriptions = <<>>

\* Nothing is borrowed, no component has rendered, the history is empty.
InitRest ==
    /\ state_borrow = 0
    /\ previous_borrow = 0
    /\ pc = "idle"
    /\ taken = <<>>
    /\ pos = 0
    /\ kept = <<>>
    /\ failure = NoFailure
    /\ hooked = [o \in Observers |-> FALSE]
    /\ is_active = [o \in Observers |-> FALSE]
    /\ subs = [o \in Observers |-> NoSubscriptions]
    /\ rendering = Nobody
    /\ views = <<>>
    /\ subscribed = <<>>
    /\ call = [made |-> FALSE, prev |-> state, arg |-> state, list |-> <<>>]
    /\ notified = <<>>
    /\ woken = [o \in Observers |-> 0]
    /\ added = {}
    /\ carried = {}
    /\ removed = {}
    /\ observed = NoValue
    /\ reentered = NoCall
    /\ previous_pass = [o \in Observers |-> NoPass]
    /\ pass_read = [o \in Observers |-> NothingRead]
    /\ ops = 0

\* A panic: the run ends with the message, nothing else changes.
Panic(msg) ==
    /\ failure' = msg
    /\ UNCHANGED <<storeVars, notifyVars, hookVars, subscribed, call, notified,
                   woken, added, carried, previous_pass, pass_read, removed, observed, ops>>

\* No operation runs after a panic.
Running == failure = NoFailure

\* --------------------------------------------------------------- the store
\* Vec::push of store.rs:74: the list with the callback at its end.
PushedFront(list, cb) == <<cb>> \o list
Pushed(list, cb) == Append(list, cb)

\* Store::subscribe, store.rs:73-75, called by user code outside a notification.
Subscribe ==
    /\ Running /\ pc = "idle"
    /\ ops < MaxOps
    /\ ops' = ops + 1
    /\ LET cb == Raw(Len(subscribed) + 1) IN
        /\ subscriptions' = Pushed(subscriptions, cb)
        /\ subscribed' = Append(subscribed, cb)
    /\ UNCHANGED <<state, previous_state, state_borrow, previous_borrow, notifyVars,
                   failure, hookVars, call, notified, woken, added, carried, previous_pass, pass_read,
                   removed, observed, reentered>>

\* Store::state(), store.rs:39-41: clones the current Rc out of a shared borrow.
StoreStatePrevious == previous_state
StoreState == state

\* Store::state() called by user code outside a notification.
ReadState ==
    /\ Running /\ pc = "idle"
    /\ observed' = StoreState
    /\ UNCHANGED <<storeVars, notifyVars, failure, hookVars, subscribed, call,
                   notified, woken, added, carried, previous_pass, pass_read, removed, reentered, ops>>

\* set_state, store.rs:53-57: previous_state takes the old Rc, state the new one.
WriteStateOnly(new_state) ==
    /\ previous_state' = previous_state
    /\ state' = new_state
WriteState(new_state) ==
    /\ previous_state' = state
    /\ state' = new_state

\* notify, store.rs:78-80: take the list, borrow previous_state and state.
NotifyBegin ==
    /\ taken' = subscriptions
    /\ subscriptions' = <<>>
    /\ previous_borrow' = previous_borrow + 1
    /\ state_borrow' = state_borrow + 1
    /\ pos' = 1
    /\ kept' = <<>>
    /\ pc' = "notify"

\* Store::set_state(new_state), store.rs:52-59, called outside a notification:
\* by an event handler, a service, or the body of the component that is rendering.
SetState(new_state) ==
    /\ Running /\ pc = "idle"
    /\ ops < MaxOps
    /\ IF ~CanBorrowMut(state_borrow) \/ ~CanBorrowMut(previous_borrow)
       THEN /\ Panic(BorrowMutError)
            /\ UNCHANGED reentered
       ELSE /\ WriteState(new_state)
            /\ NotifyBegin
            /\ call' = [made |-> TRUE, prev |-> state, arg |-> new_state,
                        list |-> subscriptions]
            /\ observed' = NoValue
            /\ ops' = ops + 1
            /\ UNCHANGED <<failure, hookVars, subscribed, notified, woken, added,
                           carried, previous_pass, pass_read, removed, reentered>>

\* The arguments notify passes to a callback (store.rs:79-81).
CallbackPreviousIsNext == state
CallbackPrevious == previous_state
CallbackNext == state

\* One invocation record of the history; evals lists the selectors it evaluated.
Invocation(cb, ret, evals) ==
    [sub |-> cb, prev |-> CallbackPrevious, next |-> CallbackNext, ret |-> ret,
     evals |-> evals]

\* Vec::retain (store.rs:81) keeps the callback when it returned true.
RetainedAlways(list, cb, ret) == Append(list, cb)
Retained(list, cb, ret) == IF ret THEN Append(list, cb) ELSE list

\* retain moves on: the callback returned `ret`.
Retain(cb, ret, evals) ==
    /\ kept' = Retained(kept, cb, ret)
    /\ pos' = pos + 1
    /\ notified' = Append(notified, Invocation(cb, ret, evals))
    /\ removed' = IF ret THEN removed ELSE removed \cup {cb}
    /\ UNCHANGED <<pc, taken>>

\* retain invokes a raw callback.  The callback may read the store, subscribe
\* another callback or write the store before it returns `ret`.
NotifyRaw(effect, ret, new_state) ==
    /\ Running /\ pc = "notify" /\ pos <= Len(taken)
    /\ taken[pos].kind = "raw"
    /\ LET cb == taken[pos] IN
        CASE effect = "none" ->
                /\ Retain(cb, ret, <<>>)
                /\ UNCHANGED <<storeVars, failure, hookVars, subscribed, call, woken,
                               added, carried, previous_pass, pass_read, observed, reentered, ops>>
          [] effect = "state" ->
                /\ observed' = StoreState
                /\ Retain(cb, ret, <<>>)
                /\ UNCHANGED <<storeVars, failure, hookVars, subscribed, call, woken,
                               added, carried, previous_pass, pass_read, reentered, ops>>
          [] effect = "subscribe" ->
                /\ ops < MaxOps
                /\ ops' = ops + 1
                /\ LET new == Raw(Len(subscribed) + 1) IN
                    /\ subscriptions' = Append(subscriptions, new)
                    /\ subscribed' = Append(subscribed, new)
                    /\ added' = added \cup {new}
                /\ Retain(cb, ret, <<>>)
                /\ UNCHANGED <<state, previous_state, state_borrow, previous_borrow,
                               failure, hookVars, call, woken, carried, previous_pass, pass_read, observed,
                               reentered>>
          [] effect = "set_state" ->
                \* set_state, store.rs:54-55: borrow_mut while notify holds the
                \* Refs it took at store.rs:79-80
                /\ ~CanBorrowMut(state_borrow) \/ ~CanBorrowMut(previous_borrow)
                /\ reentered' = [by |-> cb.n, pos |-> pos, arg |-> new_state]
                /\ Panic(BorrowMutError)

\* notify, store.rs:82: the survivors are appended to the store's list, which
\* by then holds what was subscribed during the pass.
MergedOver(list, survivors) == survivors
Merged(list, survivors) == list \o survivors

\* notify, store.rs:82-83: merge, and the borrows end; set_state returns.
NotifyEnd ==
    /\ Running /\ pc = "notify" /\ pos > Len(taken)
    /\ subscriptions' = Merged(subscriptions, kept)
    /\ previous_borrow' = previous_borrow - 1
    /\ state_borrow' = state_borrow - 1
    /\ pc' = "returned"
    /\ taken' = <<>>
    /\ kept' = <<>>
    /\ pos' = 0
    /\ UNCHANGED <<state, previous_state, failure, hookVars, histVars>>

\* The caller of set_state goes on.  Only the history moves: the record of the
\* call is closed.
Return ==
    /\ Running /\ pc = "returned"
    /\ pc' = "idle"
    /\ notified' = <<>>
    /\ woken' = [o \in Observers |-> 0]
    /\ carried' = added
    /\ added' = {}
    /\ UNCHANGED <<storeVars, taken, pos, kept, failure, hookVars, subscribed, call,
                   removed, observed, reentered, previous_pass,
                   pass_read, ops>>

\* ---------------------------------------------------------- the hook layer
\* A selector applied to a state.  A bool result is written 0/1; TypeOf keeps
\* the Rust type, which is what downcast checks.
Select(sel, s) == IF sel = "value" THEN s.value ELSE IF s.flag THEN 1 ELSE 0
TypeOf(sel) == IF sel = "value" THEN "i32" ELSE "bool"

\* Rc::new(v) for a v of type ty, as an Rc<dyn Any>.
NewRc(ty, v) == [ty |-> ty, val |-> v]

\* The closure map (handle.rs:62-71) and watch (handle.rs:153-162) push: the new
\* value is compared with the cached one by PartialEq::ne; it returns a new Rc
\* when they differ (fresh) and the cached Rc itself otherwise.
ValueClosure(sub, cached, next) ==
    LET n == Select(sub.sel, next) IN
    IF n # cached.val THEN [rc |-> NewRc(TypeOf(sub.sel), n), fresh |-> TRUE]
    ELSE [rc |-> cached, fresh |-> FALSE]

\* The closure map_ref (handle.rs:98-100) and watch_ref (handle.rs:126-128) push.
RefClosure(sel, prev, next) == Select(sel, prev) # Select(sel, next)

\* downcast::<M>() of a cached Rc<dyn Any> succeeds when it holds an M.
Downcasts(cached, sel) == cached.ty = TypeOf(sel)

\* use_context::<StoreContext<T>>() of mod.rs:34 finds a context above o.
RegisteredAlways(o) == TRUE
Registered(o) == registered[o]

\* MyHookContext::next_state, mod.rs:141: the hook position holds a state, so
\* the initializer does not run.
HasHookStateNever(o) == FALSE
HasHookState(o) == hooked[o]

\* The components the host mounts before o have had their first pass.
MountedBefore(o) ==
    \A i, j \in 1..Len(MountOrder) :
        (i < j /\ MountOrder[j] = o) => hooked[MountOrder[i]]

\* subs.subscriptions.clear(); subs.ref_subscriptions.clear() of mod.rs:37-40.
ClearedWithStates(S) == NoSubscriptions
Cleared(S) == [S EXCEPT !.subscriptions = <<>>, !.ref_subscriptions = <<>>]

\* use_store, mod.rs:33-46, with use_store_subscription's initializer
\* (mod.rs:67-110) on the component's first pass.
UseStore(o) ==
    /\ Running /\ pc = "idle" /\ rendering = Nobody
    /\ ops < MaxOps
    /\ ~hooked[o] \/ is_active[o]
    /\ MountedBefore(o)
    /\ IF ~Registered(o)
       THEN /\ Panic(NotRegistered)
            /\ UNCHANGED reentered
       ELSE /\ rendering' = o
            /\ ops' = ops + 1
            /\ pass_read' = [pass_read EXCEPT ![o] = NothingRead]
            /\ IF HasHookState(o)
               THEN /\ subs' = [subs EXCEPT ![o] = Cleared(@)]
                    /\ previous_pass' = [previous_pass EXCEPT ![o] =
                          [cleared |-> TRUE,
                           subscriptions |-> subs[o].subscriptions,
                           ref_subscriptions |-> subs[o].ref_subscriptions]]
                    /\ UNCHANGED <<hooked, is_active, subscriptions, subscribed>>
               ELSE /\ hooked' = [hooked EXCEPT ![o] = TRUE]
                    /\ is_active' = [is_active EXCEPT ![o] = TRUE]
                    /\ subs' = [subs EXCEPT ![o] = NoSubscriptions]
                    /\ subscriptions' = Append(subscriptions, Hook(o))
                    /\ subscribed' = Append(subscribed, Hook(o))
                    /\ UNCHANGED previous_pass
            /\ UNCHANGED <<state, previous_state, state_borrow, previous_borrow,
                           notifyVars, failure, registered, views, call, notified,
                           woken, added, carried, removed, observed, reentered>>

\* The body of component o is running and may declare another selector.
InPass(o) == Running /\ pc = "idle" /\ rendering = o /\ ops < MaxOps

\* History: a declaration of o read `val` for the selector.
Reads(o, sel, val) ==
    IF pass_read[o].woken THEN pass_read
    ELSE [pass_read EXCEPT ![o].vals = Append(@, [sel |-> sel, val |-> val])]

\* UseStoreHandle::map, handle.rs:46-73.
Map(o, sel) ==
    /\ InPass(o)
    /\ LET current_index == Len(subs[o].subscriptions)
           cached == current_index < Len(subs[o].states)
           sub == [sel |-> sel, via |-> "map"]
       IN IF cached /\ ~Downcasts(subs[o].states[current_index + 1], sel)
          THEN /\ Panic(MapDifferentOrder)
               /\ UNCHANGED reentered
          ELSE /\ subs' = [subs EXCEPT
                     ![o].states = IF cached THEN @
                                   ELSE Append(@, NewRc(TypeOf(sel), Select(sel, state))),
                     ![o].subscriptions = Append(@, sub)]
               /\ pass_read' = Reads(o, sel, IF cached
                                              THEN subs[o].states[current_index + 1].val
                                              ELSE Select(sel, state))
               /\ ops' = ops + 1
               /\ UNCHANGED <<storeVars, notifyVars, failure, registered, hooked,
                              is_active, rendering, views, subscribed, call,
                              notified, woken, added, carried, previous_pass, removed, observed,
                              reentered>>

\* UseStoreHandle::watch, handle.rs:149-163.
Watch(o, sel) ==
    /\ InPass(o)
    /\ subs' = [subs EXCEPT ![o].subscriptions = Append(@, [sel |-> sel, via |-> "watch"])]
    /\ pass_read' = Reads(o, sel, Select(sel, state))
    /\ ops' = ops + 1
    /\ UNCHANGED <<storeVars, notifyVars, failure, registered, hooked, is_active,
                   rendering, views, subscribed, call, notified, woken, added,
                   carried, previous_pass, removed, observed, reentered>>

\* Ref::map(self.state_ref(), &map), handle.rs:94: what is read through the
\* view is the selected part of the Rc in Store.state.
ViewValuePrevious(sel) == Select(sel, previous_state)
ViewValue(sel) == Select(sel, state)

\* UseStoreHandle::map_ref, handle.rs:93-102.  The Ref<M> it returns borrows
\* Store.state until the component's body drops it.
MapRef(o, sel) ==
    /\ InPass(o)
    /\ state_borrow' = state_borrow + 1
    /\ views' = Append(views, [sel |-> sel, val |-> ViewValue(sel)])
    /\ subs' = [subs EXCEPT ![o].ref_subscriptions = Append(@, sel)]
    /\ pass_read' = Reads(o, sel, ViewValue(sel))
    /\ ops' = ops + 1
    /\ UNCHANGED <<state, previous_state, previous_borrow, subscriptions, notifyVars,
                   failure, registered, hooked, is_active, rendering, subscribed,
                   call, notified, woken, added, carried, previous_pass, removed, observed,
                   reentered>>

\* UseStoreHandle::watch_ref, handle.rs:122-129.
WatchRef(o, sel) ==
    /\ InPass(o)
    /\ subs' = [subs EXCEPT ![o].ref_subscriptions = Append(@, sel)]
    /\ pass_read' = Reads(o, sel, Select(sel, state))
    /\ ops' = ops + 1
    /\ UNCHANGED <<storeVars, notifyVars, failure, registered, hooked, is_active,
                   rendering, views, subscribed, call, notified, woken, added,
                   carried, previous_pass, removed, observed, reentered>>

\* The component's body returns: the views it held are dropped.
EndPass(o) ==
    /\ Running /\ pc = "idle" /\ rendering = o
    /\ rendering' = Nobody
    /\ state_borrow' = state_borrow - Len(views)
    /\ views' = <<>>
    /\ UNCHANGED <<state, previous_state, previous_borrow, subscriptions, notifyVars,
                   failure, registered, hooked, is_active, subs, histVars>>

\* *self.0.borrow_mut() = false of mod.rs:54: the flag after the drop.
DroppedToggled(flag) == ~flag
Dropped(flag) == FALSE

\* The component is destroyed: WatchState::drop, mod.rs:52-56.
Detach(o) ==
    /\ Running /\ pc = "idle" /\ rendering = Nobody
    /\ hooked[o]
    /\ ops < MaxOps
    /\ ops' = ops + 1
    /\ is_active' = [is_active EXCEPT ![o] = Dropped(@)]
    /\ UNCHANGED <<storeVars, notifyVars, failure, registered, hooked, subs,
                   rendering, views, subscribed, call, notified, woken, added,
                   carried, previous_pass, pass_read, removed, observed, reentered>>

\* The first value-selector of o the loop mod.rs:85-93 panics at, or 0.
FirstBad(o) ==
    LET S == subs[o]
        bad == {i \in 1..Len(S.subscriptions) :
                   \/ i > Len(S.states)
                   \/ ~Downcasts(S.states[i], S.subscriptions[i].sel)}
    IN IF bad = {} THEN 0 ELSE CHOOSE i \in bad : \A j \in bad : i <= j

\* The panic message at value-selector i (mod.rs:89, handle.rs:66, handle.rs:157).
BadMessage(o, i) ==
    IF i > Len(subs[o].states) THEN NoCorrespondingState
    ELSE IF subs[o].subscriptions[i].via = "map" THEN MapDifferentOrder
    ELSE WatchDifferentOrder

\* next_states of mod.rs:84-94: every closure is called and its result pushed.
NextStatesShortCircuit(o, next) ==
    LET fresh == {i \in 1..Len(subs[o].subscriptions) :
                     ValueClosure(subs[o].subscriptions[i], subs[o].states[i], next).fresh}
    IN [i \in 1..Len(subs[o].subscriptions) |->
           IF \E j \in fresh : j < i THEN subs[o].states[i]
           ELSE ValueClosure(subs[o].subscriptions[i], subs[o].states[i], next).rc]
NextStates(o, next) ==
    [i \in 1..Len(subs[o].subscriptions) |->
        ValueClosure(subs[o].subscriptions[i], subs[o].states[i], next).rc]

\* require_render of mod.rs:83-93: some closure returned an Rc that is not
\* (Rc::ptr_eq) the cached one.
RequireRender(o, next) ==
    \E i \in 1..Len(subs[o].subscriptions) :
        ValueClosure(subs[o].subscriptions[i], subs[o].states[i], next).fresh

\* The first reference-selector that differs (mod.rs:100-105), or 0.
FirstRefChanged(o, prev, next) ==
    LET R == subs[o].ref_subscriptions
        ch == {i \in 1..Len(R) : RefClosure(R[i], prev, next)}
    IN IF ch = {} THEN 0 ELSE CHOOSE i \in ch : \A j \in ch : i <= j

\* The evaluation of the i-th value selector of o by the loop mod.rs:85-93:
\* the cached value, the new one, and whether the closure returned a new Rc.
ValueEvaluation(o, i, next) ==
    LET sub == subs[o].subscriptions[i] IN
    [sel |-> sub.sel, kind |-> "value",
     before |-> subs[o].states[i].val, after |-> Select(sub.sel, next),
     changed |-> ValueClosure(sub, subs[o].states[i], next).fresh]

\* The evaluation of the i-th reference selector of o by the loop mod.rs:100-105.
RefEvaluation(o, i, prev, next) ==
    LET sel == subs[o].ref_subscriptions[i] IN
    [sel |-> sel, kind |-> "ref",
     before |-> Select(sel, prev), after |-> Select(sel, next),
     changed |-> RefClosure(sel, prev, next)]

\* The selectors the closure evaluates, in order (mod.rs:85-105).
EvaluatedAll(o, prev, next) ==
    [i \in 1..Len(subs[o].subscriptions) |-> ValueEvaluation(o, i, next)]
    \o [i \in 1..Len(subs[o].ref_subscriptions) |-> RefEvaluation(o, i, prev, next)]
Evaluated(o, prev, next) ==
    LET S == subs[o]
        vals == [i \in 1..Len(S.subscriptions) |-> ValueEvaluation(o, i, next)]
        k == FirstRefChanged(o, prev, next)
        n == IF k = 0 THEN Len(S.ref_subscriptions) ELSE k
        refs == [i \in 1..n |-> RefEvaluation(o, i, prev, next)]
    IN IF S.subscriptions # <<>> /\ RequireRender(o, next) THEN vals ELSE vals \o refs

\* The closure calls the wake callback (r)() (mod.rs:95-97, mod.rs:101-103).
Wakes(o, prev, next) ==
    \/ subs[o].subscriptions # <<>> /\ RequireRender(o, next)
    \/ FirstRefChanged(o, prev, next) # 0

\* The number of times the closure calls (r)() in one invocation: it returns
\* right after the call (mod.rs:96-97, mod.rs:102-103).
WakeCallsPerSelector(o, prev, next) ==
    Cardinality({i \in 1..Len(subs[o].subscriptions) :
                    ValueClosure(subs[o].subscriptions[i], subs[o].states[i], next).fresh})
    + Cardinality({i \in 1..Len(subs[o].ref_subscriptions) :
                    RefClosure(subs[o].ref_subscriptions[i], prev, next)})
WakeCalls(o, prev, next) == IF Wakes(o, prev, next) THEN 1 ELSE 0

\* *is_active.borrow() of mod.rs:78.
IsActiveAlways(o) == TRUE
IsActive(o) == is_active[o]

\* retain invokes the closure of component o: mod.rs:77-107.
NotifyHook ==
    /\ Running /\ pc = "notify" /\ pos <= Len(taken)
    /\ taken[pos].kind = "hook"
    /\ LET cb == taken[pos]
           o == cb.o
           prev == CallbackPrevious
           next == CallbackNext
       IN IF ~IsActive(o)
          THEN /\ Retain(cb, FALSE, <<>>)
               /\ UNCHANGED <<storeVars, failure, hookVars, subscribed, call, woken,
                              added, carried, previous_pass, pass_read, observed, reentered, ops>>
          ELSE IF FirstBad(o) # 0
          THEN /\ Panic(BadMessage(o, FirstBad(o)))
               /\ UNCHANGED reentered
          ELSE /\ subs' = IF subs[o].subscriptions # <<>>
                          THEN [subs EXCEPT ![o].states = NextStates(o, next)]
                          ELSE subs
               /\ woken' = [woken EXCEPT ![o] = @ + WakeCalls(o, prev, next)]
               /\ pass_read' = IF WakeCalls(o, prev, next) > 0
                                THEN [pass_read EXCEPT ![o] = Woken]
                                ELSE pass_read
               /\ Retain(cb, TRUE, Evaluated(o, prev, next))
               /\ UNCHANGED <<storeVars, failure, registered, hooked, is_active,
                              rendering, views, subscribed, call, added, carried, previous_pass,
                              observed, reentered, ops>>

\* ------------------------------------------------------- the specifications
Init ==
    /\ \E initial_state \in StateVals : StoreNew(initial_state)
    /\ InitRest
    /\ registered = [o \in Observers |-> TRUE]

Next ==
    \/ Subscribe
    \/ ReadState
    \/ \E new_state \in StateVals : SetState(new_state)
    \/ \E effect \in Effects, ret \in BOOLEAN, new_state \in StateVals :
          NotifyRaw(effect, ret, new_state)
    \/ NotifyEnd
    \/ Return

Spec == Init /\ [][Next]_vars

\* StoreContext::new(StoreState { value: 0 }) of tests/common/store.rs:31; a
\* component may lack the ContextProvider above it.
InitHook ==
    /\ StoreNew([value |-> 0, flag |-> FALSE])
    /\ InitRest
    /\ registered \in [Observers -> BOOLEAN]

NextHook ==
    \/ \E o \in Observers : UseStore(o)
    \/ \E o \in Observers, sel \in Selectors : Map(o, sel)
    \/ \E o \in Observers, sel \in Selectors : Watch(o, sel)
    \/ \E o \in Observers, sel \in Selectors : MapRef(o, sel)
    \/ \E o \in Observers, sel \in Selectors : WatchRef(o, sel)
    \/ \E o \in Observers : EndPass(o)
    \/ \E o \in Observers : Detach(o)
    \/ \E new_state \in StateVals : SetState(new_state)
    \/ NotifyHook
    \/ NotifyEnd
    \/ Return

SpecHook == InitHook /\ [][NextHook]_vars

\* The store with both components mounted: each has had its first pass, which
\* declared no selector, so each has its hook state and its closure is
\* subscribed, in mount order (mod.rs:67-110).
InitMounted ==
    /\ previous_state = [value |-> 0, flag |-> FALSE]
    /\ state = [value |-> 0, flag |-> FALSE]
    /\ subscriptions = [i \in 1..Len(MountOrder) |-> Hook(MountOrder[i])]
    /\ subscribed = subscriptions
    /\ state_borrow = 0
    /\ previous_borrow = 0
    /\ pc = "idle"
    /\ taken = <<>>
    /\ pos = 0
    /\ kept = <<>>
    /\ failure = NoFailure
    /\ registered = [o \in Observers |-> TRUE]
    /\ hooked = [o \in Observers |-> TRUE]
    /\ is_active = [o \in Observers |-> TRUE]
    /\ subs = [o \in Observers |-> NoSubscriptions]
    /\ rendering = Nobody
    /\ views = <<>>
    /\ call = [made |-> FALSE, prev |-> state, arg |-> state, list |-> <<>>]
    /\ notified = <<>>
    /\ woken = [o \in Observers |-> 0]
    /\ added = {}
    /\ carried = {}
    /\ removed = {}
    /\ observed = NoValue
    /\ reentered = NoCall
    /\ previous_pass = [o \in Observers |-> NoPass]
    /\ pass_read = [o \in Observers |-> NothingRead]
    /\ ops = 0

SpecMounted == InitMounted /\ [][NextHook]_vars

\* ------------------------------------------------------------- the claims
\* The callbacks of an invocation log, in order.
SubsOf(log) == [i \in 1..Len(log) |-> log[i].sub]

\* The position of a callback in the order of subscription.
SubscriptionIndex(cb) == CHOOSE i \in 1..Len(subscribed) : subscribed[i] = cb

\* C1: a set_state made by a callback during a notification completes without
\* failure (and the list then holds exactly the callbacks that returned true).
C1_ReentrantSetStateCompletes == reentered # NoCall => failure = NoFailure

\* C2: once the outer set_state is over, every subscriber positioned after the
\* one that called set_state(s2) has been invoked with next = s2.
C2_LaterSubscribersSeeFinal ==
    (reentered # NoCall /\ (failure # NoFailure \/ pc # "notify")) =>
        \A i \in (reentered.pos + 1)..Len(taken) :
            \E k \in 1..Len(notified) :
                notified[k].sub = taken[i] /\ notified[k].next = reentered.arg

\* C3: whatever state() returns after a set_state(s1), outside or inside the
\* notification, is s1 (before any set_state: the initial state).
C3_ReadAfterWrite == observed # NoValue => observed = call.arg

C3_Witness ==
    /\ pc = "notify" /\ call.made /\ call.prev # call.arg
    /\ observed = call.arg

\* C4: previous_state is the value that was current immediately before the most
\* recent set_state, and equals state as long as there was none.
C4_PreviousState ==
    /\ previous_state = call.prev
    /\ ~call.made => previous_state = state

C4_Witness ==
    /\ pc = "returned" /\ call.made
    /\ previous_state # state /\ previous_state = call.prev

\* C5: a set_state(v) made outside a notification invokes the subscribers of the
\* list at the time of the call, in that order, each once, with (previous, next)
\* = (the state before the write, v): the invocations so far are a prefix of
\* that list, and all of it when set_state returns.
C5_NotificationDelivery ==
    pc \in {"notify", "returned"} =>
        /\ Len(notified) = (IF pc = "returned" THEN Len(call.list) ELSE pos - 1)
        /\ Len(notified) <= Len(call.list)
        /\ \A i \in 1..Len(notified) :
              /\ notified[i].sub = call.list[i]
              /\ notified[i].prev = call.prev
              /\ notified[i].next = call.arg
        /\ \A i, j \in 1..Len(call.list) : call.list[i] = call.list[j] => i = j

C5_Witness ==
    /\ pc = "returned" /\ Len(call.list) >= 2 /\ call.prev # call.arg
    /\ SubsOf(notified) = call.list

\* C6: when set_state returns, a subscriber it invoked is in the list exactly if
\* its callback returned true, the list is shorter by one per callback that
\* returned false, and a callback that returned false is never again in the
\* list, among the survivors or ahead of retain, so no later set_state invokes it.
C6_ReturnValueCancellation ==
    /\ \A cb \in removed :
          /\ cb \notin Range(subscriptions)
          /\ cb \notin Range(kept)
          /\ \A i \in 1..Len(taken) : i >= pos => taken[i] # cb
    /\ pc = "returned" =>
          /\ \A i \in 1..Len(notified) :
                (notified[i].sub \in Range(subscriptions)) <=> notified[i].ret
          /\ Len(subscriptions) =
                Len(call.list) - Cardinality({i \in 1..Len(notified) : ~notified[i].ret})
                               + Cardinality(added)

C6_Witness ==
    /\ pc = "returned"
    /\ \E i, j \in 1..Len(notified) : notified[i].ret /\ ~notified[j].ret
    /\ \E cb \in removed : cb \notin Range(SubsOf(notified))

\* C7: every notification invokes the live subscribers in the order in which
\* they were subscribed.
C7_SubscriptionOrder ==
    pc = "notify" =>
        \A i, j \in 1..Len(taken) :
            i < j => SubscriptionIndex(taken[i]) < SubscriptionIndex(taken[j])

\* C8: a subscriber added by a callback during a notification is not invoked by
\* that notification, is in the store's list when it finishes and until the
\* next set_state, and is invoked by the next set_state.
C8_SubscribeDuringNotification ==
    /\ \A cb \in added :
          /\ cb \notin Range(SubsOf(notified))
          /\ cb \in Range(subscriptions)
    /\ pc = "idle" => carried \subseteq Range(subscriptions)
    /\ pc = "notify" => carried \subseteq Range(taken)
    /\ pc = "returned" => carried \subseteq Range(SubsOf(notified))

C8_Witness ==
    /\ pc = "returned" /\ carried # {}
    /\ carried \subseteq Range(SubsOf(notified))

\* The component o is attached: it has rendered and was not dropped.
Attached(o) == hooked[o] /\ is_active[o]

\* The selectors component o declared with map, map_ref and watch_ref that are
\* registered now.
DeclaredSelectors(o) ==
    {subs[o].subscriptions[i].sel :
        i \in {k \in 1..Len(subs[o].subscriptions) : subs[o].subscriptions[k].via = "map"}}
    \cup Range(subs[o].ref_subscriptions)

\* Component o registered no value selector with watch.
OnlyMaps(o) ==
    \A i \in 1..Len(subs[o].subscriptions) : subs[o].subscriptions[i].via = "map"

\* C9: an attached observer that declared its selectors with map, map_ref and
\* watch_ref, and all of whose selectors have equal values before and after a
\* write, is not woken by that write, wherever the write falls among its passes.
C9_NoSpuriousWake ==
    \A o \in Observers :
        ( /\ pc \in {"notify", "returned"}
          /\ Attached(o)
          /\ OnlyMaps(o)
          /\ \A sel \in DeclaredSelectors(o) :
                Select(sel, call.prev) = Select(sel, call.arg) )
        => woken[o] = 0

\* C10: an attached observer one of whose declared selectors changes value with
\* a write has been woken exactly once when that set_state returns.
C10_WakeOnChange ==
    \A o \in Observers :
        ( /\ pc = "returned"
          /\ Attached(o)
          /\ OnlyMaps(o)
          /\ Hook(o) \in Range(call.list)
          /\ \E sel \in DeclaredSelectors(o) :
                Select(sel, call.prev) # Select(sel, call.arg) )
        => woken[o] = 1

\* Component o registered value selectors with watch only, at least one, and no
\* reference selector.
OnlyWatches(o) ==
    /\ subs[o].subscriptions # <<>>
    /\ \A i \in 1..Len(subs[o].subscriptions) : subs[o].subscriptions[i].via = "watch"
    /\ subs[o].ref_subscriptions = <<>>

\* Some value selector registered by o differs between the two states.
ValueSelectorChanged(o, prev, next) ==
    \E i \in 1..Len(subs[o].subscriptions) :
        Select(subs[o].subscriptions[i].sel, prev) # Select(subs[o].subscriptions[i].sel, next)

\* C11: for an attached observer that declared watch(select), the closure runs
\* to its end without failure on every notification, and when set_state
\* returns the observer was woken once if select's value changed and not at all
\* if it did not.
C11_WatchLikeMap ==
    \A o \in Observers :
        (Attached(o) /\ OnlyWatches(o)) =>
            /\ (pc = "notify" /\ pos <= Len(taken) /\ taken[pos] = Hook(o))
                  => failure = NoFailure
            /\ (pc = "returned" /\ Hook(o) \in Range(call.list))
                  => woken[o] = (IF ValueSelectorChanged(o, call.prev, call.arg)
                                 THEN 1 ELSE 0)

\* C12: within one set_state no observer's wake callback is invoked more than
\* once, whatever selectors it declared and however many of them changed.
C12_AtMostOneWake == \A o \in Observers : woken[o] <= 1

\* An observer with three or more selectors, value and reference ones, all of
\* which changed with the write, was woken once.
C12_Witness ==
    /\ pc = "returned"
    /\ \E o \in Observers :
          /\ woken[o] = 1
          /\ Len(subs[o].subscriptions) >= 1
          /\ Len(subs[o].ref_subscriptions) >= 1
          /\ Len(subs[o].subscriptions) + Len(subs[o].ref_subscriptions) >= 3
          /\ \A i \in 1..Len(subs[o].subscriptions) :
                Select(subs[o].subscriptions[i].sel, call.prev)
                   # Select(subs[o].subscriptions[i].sel, call.arg)
          /\ \A i \in 1..Len(subs[o].ref_subscriptions) :
                RefClosure(subs[o].ref_subscriptions[i], call.prev, call.arg)

\* Component o was dropped after it rendered: its active flag is false.
Detached(o) == hooked[o] /\ ~is_active[o]

\* C13: a detached observer is woken by no set_state; the first set_state after
\* the detach invokes its closure, which returns false without evaluating a
\* selector, so that when set_state returns the store's list no longer holds
\* the observer's entry and is shorter by one per detached observer; the entry
\* never comes back.
C13_DetachStopsNotification ==
    \A o \in Observers :
        Detached(o) =>
            /\ woken[o] = 0
            /\ \A i \in 1..Len(notified) :
                  notified[i].sub = Hook(o) =>
                      ~notified[i].ret /\ notified[i].evals = <<>>
            /\ pc = "returned" =>
                  /\ Hook(o) \notin Range(subscriptions)
                  /\ Len(subscriptions) =
                        Len(call.list)
                        - Cardinality({d \in Observers :
                                         Detached(d) /\ Hook(d) \in Range(call.list)})
            /\ Hook(o) \in removed =>
                  /\ Hook(o) \notin Range(subscriptions)
                  /\ Hook(o) \notin Range(kept)
                  /\ \A i \in 1..Len(taken) : i >= pos => taken[i] # Hook(o)

\* A set_state that changed a selector of a detached observer has returned, and
\* another observer is still in the list.
C13_Witness ==
    /\ pc = "returned"
    /\ subscriptions # <<>>
    /\ \E o \in Observers :
          /\ Detached(o)
          /\ Hook(o) \in Range(call.list)
          /\ OnlyMaps(o)
          /\ ValueSelectorChanged(o, call.prev, call.arg)
          /\ woken[o] = 0

\* The closure of component o has run to its end in the notification in progress.
ClosureCompleted(o) == Hook(o) \in Range(SubsOf(notified))

\* The last two passes of o are over and declared map selectors only, two in
\* the one and one in the other.
MapCountMismatch(o) ==
    LET before == previous_pass[o] IN
    /\ before.cleared /\ rendering # o
    /\ before.ref_subscriptions = <<>> /\ subs[o].ref_subscriptions = <<>>
    /\ \A i \in 1..Len(before.subscriptions) : before.subscriptions[i].via = "map"
    /\ OnlyMaps(o)
    /\ <<Len(before.subscriptions), Len(subs[o].subscriptions)>> \in {<<2, 1>>, <<1, 2>>}

\* C14: when an observer declared two map selectors in one pass and one in the
\* next, or one and then two, the next notification does not run its closure to
\* the end silently: a failure is raised by then.
C14_CountMismatchDetected ==
    \A o \in Observers :
        (Attached(o) /\ MapCountMismatch(o) /\ ClosureCompleted(o))
            => failure # NoFailure

\* The pass of o before the last had a map selector at a position where the
\* last pass, which is over, has no value selector (it declared a reference
\* selector or nothing there).
KindMismatch(o) ==
    LET before == previous_pass[o] IN
    /\ before.cleared /\ rendering # o
    /\ \E i \in 1..Len(before.subscriptions) :
          /\ before.subscriptions[i].via = "map"
          /\ i > Len(subs[o].subscriptions)

\* C15: when a position that held a map selector in one pass holds a reference
\* selector or nothing in the next, the registry does not go on operating: the
\* next notification does not run the observer's closure to the end.
C15_KindMismatchDetected ==
    \A o \in Observers :
        (Attached(o) /\ KindMismatch(o) /\ ClosureCompleted(o))
            => failure # NoFailure

\* The number of entries of a list that are the callback cb.
Occurrences(list, cb) == Cardinality({i \in 1..Len(list) : list[i] = cb})

\* The callbacks the store holds: its list, and during a notification the
\* survivors so far and the part of the taken list retain has not reached.
Live ==
    subscriptions \o kept
    \o (IF pc = "notify" THEN SubSeq(taken, pos, Len(taken)) ELSE <<>>)

\* C16: the store holds exactly one entry for each attached observer, and
\* Store::subscribe was called once for each observer that ever rendered and
\* never for another, whatever the number of its passes and selectors.
C16_OneSubscriptionPerObserver ==
    \A o \in Observers :
        /\ Attached(o) => Occurrences(Live, Hook(o)) = 1
        /\ Occurrences(subscribed, Hook(o)) = (IF hooked[o] THEN 1 ELSE 0)

\* An observer in its second pass or later that has declared two selectors,
\* next to another attached observer.
C16_Witness ==
    \E o, other \in Observers :
        /\ o # other /\ Attached(o) /\ Attached(other)
        /\ previous_pass[o].cleared
        /\ Len(subs[o].subscriptions) + Len(subs[o].ref_subscriptions) >= 2
        /\ Occurrences(Live, Hook(o)) = 1

\* The last declaration of the running pass of o is a map whose cache entry
\* exists: the Rc in that entry is what the call returned (handle.rs:72), or
\* what a notification since has put in its place.
MapReturned(o) ==
    LET n == Len(subs[o].subscriptions) IN
    /\ rendering = o /\ pc = "idle" /\ Running
    /\ n >= 1 /\ n <= Len(subs[o].states)
    /\ subs[o].subscriptions[n].via = "map"

\* C17: the value map returned to the running pass is the selector applied to
\* the store's current state, also when a set_state fell between use_store and
\* the map call.
C17_MapReturnsCurrent ==
    \A o \in Observers :
        MapReturned(o) =>
            LET n == Len(subs[o].subscriptions) IN
            subs[o].states[n].val = Select(subs[o].subscriptions[n].sel, state)

\* C18: what is read through a view map_ref returned is the selector applied to
\* the store's current state, for as long as the pass holds the view: the
\* initial value on a first pass, the written value on a pass after a write.
C18_MapRefViewsCurrent ==
    \A i \in 1..Len(views) : views[i].val = Select(views[i].sel, state)

\* A second or later pass holds a view on a part of the state that the last
\* set_state changed, and reads the written value through it.
C18_Witness ==
    /\ rendering # Nobody /\ previous_pass[rendering].cleared
    /\ call.made
    /\ \E i \in 1..Len(views) :
          /\ Select(views[i].sel, call.prev) # Select(views[i].sel, call.arg)
          /\ views[i].val = Select(views[i].sel, call.arg)

\* C19: set_state completes normally when it is called while a pass holds a
\* view returned by map_ref.
C19_SetStateWithReaders == views # <<>> => failure # BorrowMutError

\* C20: an observer above which no StoreContext is registered never gets a
\* handle: its use_store fails at once with the NotRegistered message, it has no
\* hook state, no entry in a store's list was ever subscribed for it, and it has
\* no selector registered.
C20_UnregisteredStore ==
    /\ \A o \in Observers :
          ~registered[o] =>
              /\ ~hooked[o]
              /\ rendering # o
              /\ subs[o] = NoSubscriptions
              /\ Hook(o) \notin Range(subscribed)
              /\ Hook(o) \notin Range(Live)
    /\ failure = NotRegistered => \E o \in Observers : ~registered[o]

\* use_store failed for want of a context after another observer had rendered;
\* the store's list holds that observer's entry only.
C20_Witness ==
    /\ failure = NotRegistered
    /\ \E o, other \in Observers :
          /\ ~registered[o] /\ registered[other] /\ hooked[other]
          /\ subscriptions = <<Hook(other)>>

\* C21: detaching an observer that is detached already changes nothing: the
\* flags stay as they are (its own: false), no failure is raised, and the
\* store's state, previous state and list are what they were.
C21_IdempotentTeardown ==
    [][\A o \in Observers :
          (Detached(o) /\ Detach(o)) =>
              /\ is_active' = is_active /\ ~is_active'[o]
              /\ failure' = NoFailure
              /\ storeVars' = storeVars
              /\ subs' = subs]_vars

\* An observer was detached twice: three calls were made, none of them a
\* declaration, a write or a second use_store, and one observer has rendered;
\* the calls were its use_store and two detaches.
C21_Witness ==
    /\ Running /\ ops = 3 /\ ~call.made
    /\ \E o \in Observers :
          /\ Detached(o)
          /\ subs[o] = NoSubscriptions /\ ~previous_pass[o].cleared
          /\ \A other \in Observers \ {o} : ~hooked[other]
          /\ subscriptions = <<Hook(o)>>

\* C22: whenever no set_state is in progress, an attached observer that read,
\* in its last pass, a value for a declared selector that is not the selector's
\* value at the current state has had its wake callback invoked since that
\* pass began (the history keeps what was read only until that invocation).
C22_NoLostUpdate ==
    \A o \in Observers :
        (pc = "idle" /\ Running /\ Attached(o) /\ OnlyMaps(o)) =>
            \A i \in 1..Len(pass_read[o].vals) :
                pass_read[o].vals[i].val = Select(pass_read[o].vals[i].sel, state)

\* The evaluations of the closure of o in the notification in progress.
EvaluationsOf(o) ==
    LET k == CHOOSE i \in 1..Len(notified) : notified[i].sub = Hook(o)
    IN notified[k].evals

\* C23: once the closure of an active observer that declared map selectors only
\* has handled a notification (previous, next), the cache has one entry per
\* declared position, the entry at i holds selector_i(next), every value
\* selector was evaluated, in order, also after one was found changed, and a
\* new Rc was made exactly for the slots whose value differs from the cached
\* one (the others keep the cached Rc).
C23_ValueCacheRefresh ==
    \A o \in Observers :
        ( /\ ClosureCompleted(o) /\ Attached(o)
          /\ OnlyMaps(o) /\ subs[o].subscriptions # <<>>
          /\ subs[o].ref_subscriptions = <<>> ) =>
            LET S == subs[o]
                evals == EvaluationsOf(o)
            IN /\ Len(S.states) = Len(S.subscriptions)
               /\ Len(evals) = Len(S.subscriptions)
               /\ \A i \in 1..Len(S.subscriptions) :
                     /\ S.states[i].val = Select(S.subscriptions[i].sel, call.arg)
                     /\ evals[i].kind = "value"
                     /\ evals[i].sel = S.subscriptions[i].sel
                     /\ evals[i].after = S.states[i].val
                     /\ evals[i].changed <=> (evals[i].before # evals[i].after)

\* An observer with two map selectors: the first changed, the second was
\* evaluated all the same and kept its cached Rc.
C23_Witness ==
    \E o \in Observers :
        /\ ClosureCompleted(o) /\ Attached(o) /\ OnlyMaps(o)
        /\ Len(subs[o].subscriptions) = 2
        /\ subs[o].ref_subscriptions = <<>>
        /\ EvaluationsOf(o)[1].changed
        /\ ~EvaluationsOf(o)[2].changed

\* C24: in a completed closure invocation of an active observer the evaluations
\* are those of all the value selectors followed by those of a prefix of the
\* reference selectors, in declaration order; no reference selector is
\* evaluated when the closure found a value selector changed; a reference
\* selector found to differ between previous and next is the last one
\* evaluated; and when nothing changed every reference selector was evaluated.
C24_EvaluationOrder ==
    \A o \in Observers :
        (ClosureCompleted(o) /\ Attached(o)) =>
            LET S == subs[o]
                evals == EvaluationsOf(o)
                nv == Len(S.subscriptions)
                nr == Len(evals) - nv
                dirty == \E i \in 1..nv : evals[i].changed
            IN /\ nr >= 0 /\ nr <= Len(S.ref_subscriptions)
               /\ \A i \in 1..nv : evals[i].kind = "value"
               /\ dirty => nr = 0
               /\ \A j \in 1..nr :
                     /\ evals[nv + j].kind = "ref"
                     /\ evals[nv + j].sel = S.ref_subscriptions[j]
                     /\ evals[nv + j].changed <=>
                           (Select(S.ref_subscriptions[j], call.prev)
                               # Select(S.ref_subscriptions[j], call.arg))
                     /\ evals[nv + j].changed => j = nr
               /\ (~dirty /\ nr < Len(S.ref_subscriptions)) =>
                     (nr > 0 /\ evals[nv + nr].changed)

\* An observer with two reference selectors: the first differs between previous
\* and next, and the second was not evaluated.
C24_Witness ==
    \E o \in Observers :
        /\ ClosureCompleted(o) /\ Attached(o)
        /\ subs[o].subscriptions = <<>>
        /\ Len(subs[o].ref_subscriptions) = 2
        /\ Len(EvaluationsOf(o)) = 1
        /\ EvaluationsOf(o)[1].changed

\* C25: use_store on a second or later pass of an observer empties its value
\* selector list and its reference selector list, and leaves unchanged its
\* cached values, the store's state and previous state, the store's subscriber
\* list and the active flags.
C25_StartOfPass ==
    [][\A o \in Observers :
          (HasHookState(o) /\ Registered(o) /\ UseStore(o)) =>
              /\ subs'[o].subscriptions = <<>>
              /\ subs'[o].ref_subscriptions = <<>>
              /\ subs'[o].states = subs[o].states
              /\ state' = state /\ previous_state' = previous_state
              /\ subscriptions' = subscriptions
              /\ is_active' = is_active]_vars

\* A second pass has just begun: the pass before declared a value selector and
\* a reference selector, the lists are empty and the cache is not.
C25_Witness ==
    \E o \in Observers :
        /\ rendering = o /\ pass_read[o] = NothingRead
        /\ previous_pass[o].cleared = TRUE
        /\ previous_pass[o].subscriptions # <<>>
        /\ previous_pass[o].ref_subscriptions # <<>>
        /\ subs[o].subscriptions = <<>> /\ subs[o].ref_subscriptions = <<>>
        /\ subs[o].states # <<>>
        /\ views = <<>>

\* C26: once the closure of an active observer has processed a state write
\* outside the observer's passes, the observer's value selector list and
\* reference selector list are empty, so that a set_state before the next pass
\* has no selector of the observer to evaluate.
C26_SelectorListDiscarded ==
    \A o \in Observers :
        (ClosureCompleted(o) /\ Attached(o) /\ rendering # o) =>
            /\ subs[o].subscriptions = <<>>
            /\ subs[o].ref_subscriptions = <<>>

\* C27: the drop of an observer changes nothing but its active flag: the
\* store's state, previous state and subscriber list, the observer's selector
\* lists and cached values, and the other flags stay as they are; and the
\* closure of a detached observer, when a notification invokes it, evaluates no
\* selector, changes no cached value, wakes nobody and returns false.
C27_TwoPhaseTeardown ==
    [][\A o \in Observers :
          /\ Detach(o) =>
                /\ ~is_active'[o]
                /\ \A other \in Observers \ {o} : is_active'[other] = is_active[other]
                /\ state' = state /\ previous_state' = previous_state
                /\ subscriptions' = subscriptions
                /\ subs' = subs /\ hooked' = hooked
          /\ (Detached(o) /\ pc = "notify" /\ pos <= Len(taken)
                 /\ taken[pos] = Hook(o) /\ NotifyHook) =>
                /\ subs' = subs /\ woken' = woken
                /\ notified' = Append(notified, notified'[Len(notified')])
                /\ notified'[Len(notified')].sub = Hook(o)
                /\ notified'[Len(notified')].ret = FALSE
                /\ notified'[Len(notified')].evals = <<>>]_vars

\* A detached observer whose declared selector changed with the write: its
\* closure was invoked and returned false, and the cached value is the old one.
C27_Witness ==
    \E o \in Observers :
        /\ Detached(o) /\ pc = "notify"
        /\ Len(subs[o].subscriptions) = 1 /\ Len(subs[o].states) = 1
        /\ subs[o].subscriptions[1].via = "map"
        /\ subs[o].states[1].val = Select(subs[o].subscriptions[1].sel, call.prev)
        /\ subs[o].states[1].val # Select(subs[o].subscriptions[1].sel, call.arg)
        /\ \E i \in 1..Len(notified) :
              notified[i].sub = Hook(o) /\ ~notified[i].ret
        /\ woken[o] = 0

\* The selectors component o has registered now, value and reference ones.
RegisteredSelectors(o) ==
    {subs[o].subscriptions[i].sel : i \in 1..Len(subs[o].subscriptions)}
    \cup Range(subs[o].ref_subscriptions)

\* The write in progress changes the value of a selector o has registered.
SliceChanged(o) ==
    \E sel \in RegisteredSelectors(o) : Select(sel, call.prev) # Select(sel, call.arg)

\* C28: with two observers attached to the store, both with map selectors only,
\* a set_state that changes the value of a selector registered by the one and
\* of no selector registered by the other has, when it returns, woken the one
\* and not the other.
C28_IsolatedWake ==
    \A a, b \in Observers :
        ( /\ a # b /\ Attached(a) /\ Attached(b)
          /\ pc = "returned" /\ Running
          /\ OnlyMaps(a) /\ OnlyMaps(b)
          /\ SliceChanged(a) /\ ~SliceChanged(b) ) =>
            (woken[a] >= 1 /\ woken[b] = 0)

\* C29: subscribe called outside a notification makes the store's list one
\* longer, with the entries it had in the same order and the new callback, which
\* was not in the list, at the end; it invokes no callback and leaves the state
\* and the previous state as they are, whatever the new callback would return.
C29_SubscribeFrame ==
    [][Subscribe =>
          /\ Len(subscriptions') = Len(subscriptions) + 1
          /\ SubSeq(subscriptions', 1, Len(subscriptions)) = subscriptions
          /\ subscriptions'[Len(subscriptions')] \notin Range(subscriptions)
          /\ notified' = notified /\ pc' = "idle"
          /\ state' = state /\ previous_state' = previous_state
          /\ failure' = NoFailure]_vars

\* Two callbacks were subscribed after a write: the list holds them in the
\* order of subscription, no callback was invoked since, and the states are
\* those of the write.
C29_Witness ==
    /\ pc = "idle" /\ Running
    /\ call.made /\ state = call.arg /\ previous_state = call.prev
    /\ state # previous_state
    /\ notified = <<>>
    /\ Len(subscriptions) = 2 /\ subscriptions = subscribed
    /\ call.list = <<>>
    /\ ops = 3

====
